---------------------------- MODULE Spec2Model ----------------------------
(***************************************************************************)
(* jsonrpc-proxy (main.go): a JSON-RPC HTTP proxy that routes each call by *)
(* its method name.  The model follows main.go function by function: main, *)
(* loadConfig, buildMethodURLMap, handleProxy, handleSingleRequest,        *)
(* handleBatchRequest, handleHealth and forwardRequest.                    *)
(*                                                                         *)
(* A handler runs from the arrival of a request to its first outbound      *)
(* forward in one step; it is suspended while a forward is in flight       *)
(* (client.Do has no timeout) and resumes when the backend answers or the  *)
(* transport reports an error.                                             *)
(***************************************************************************)
EXTENDS Integers, Sequences, FiniteSets, TLC

\* ------------------------------------------------------------- bounds
\* Longest inbound batch of decodable calls that is enumerated.
MaxBatch == 3
\* Longest inbound array that is enumerated with elements that are no call
\* (null, a number), do not decode, or carry an id that is a JSON array.
MaxMixed == 2
\* Longest route list of a configuration file that is enumerated.
MaxRoutes == 2
\* Longest inbound array that is also enumerated padded with whitespace, and
\* as the body of a request that is not a POST.
MaxPadded == 1
\* Number of requests whose handlers run at the same time.
MaxConcurrent == 2

\* ------------------------------------------------------ JSON values
\* A JSON value as it is written on the wire: its type and its literal text.
\* "absent" is an object member that is not written at all.
JV(t, v) == [t |-> t, v |-> v]
JAbsent == JV("absent", "")
JNull == JV("null", "null")
JStr(s) == JV("str", s)
JNum(s) == JV("num", s)
JArr(s) == JV("arr", s)
JObj(s) == JV("obj", s)

\* One element of an inbound payload: a JSON object with the four members
\* JSONRPCRequest knows and, possibly, other members; or JSON null; or a number.
Elem(k, j, m, p, i, x) ==
    [kind |-> k, jsonrpc |-> j, method |-> m, params |-> p, id |-> i, extra |-> x]
Call(j, m, p, i, x) == Elem("object", j, m, p, i, x)
ENull == Elem("null", JAbsent, JAbsent, JAbsent, JAbsent, FALSE)
ENumber == Elem("number", JAbsent, JAbsent, JAbsent, JAbsent, FALSE)

\* Numeric literals of the model; BigLit is 2^53 + 1, which float64 cannot hold.
BigLit == "9007199254740993"
BigLitRounded == "9007199254740992"

\* Calls whose decoding succeeds and whose id can be a map key.
E1 == Call(JStr("2.0"), JStr("m1"), JArr("[]"), JNum("1"), FALSE)
E2 == Call(JStr("2.0"), JStr("m2"), JAbsent, JAbsent, FALSE)
E3 == Call(JStr("2.0"), JStr("M1"), JArr("[]"), JStr("1"), TRUE)
E4 == Call(JAbsent, JStr("zz"), JObj("{}"), JNum(BigLit), FALSE)
\* A call whose id is a JSON array, and one whose method is not a string.
EArrId == Call(JStr("2.0"), JStr("m1"), JArr("[]"), JArr("[1]"), FALSE)
EBadMethod == Call(JStr("2.0"), JNum("5"), JAbsent, JNum("1"), FALSE)

Calls == {E1, E2, E3, E4}
Elems == Calls \cup {ENull, EArrId, EBadMethod, ENumber}

RECURSIVE SeqsUpTo(_, _)
SeqsUpTo(S, n) ==
    IF n = 0 THEN {<<>>}
    ELSE LET shorter == SeqsUpTo(S, n - 1)
         IN  shorter \cup {Append(s, x) : s \in {t \in shorter : Len(t) = n - 1}, x \in S}

\* An inbound body: syntactically valid JSON or not, an array or a single
\* value, padded with leading and trailing whitespace or not.
Body(valid, arr, pad, elems) ==
    [valid |-> valid, arr |-> arr, pad |-> pad, elems |-> elems]
NotJSON == Body(FALSE, FALSE, FALSE, <<>>)
SmallBodies ==
    {NotJSON}
    \cup {Body(TRUE, FALSE, pad, <<e>>) : pad \in BOOLEAN, e \in Elems}
    \cup {Body(TRUE, TRUE, pad, es) : pad \in BOOLEAN, es \in SeqsUpTo(Elems, MaxPadded)}
Bodies ==
    SmallBodies
    \cup {Body(TRUE, TRUE, FALSE, es) : es \in SeqsUpTo(Calls, MaxBatch)}
    \cup {Body(TRUE, TRUE, FALSE, es) : es \in SeqsUpTo(Elems, MaxMixed)}

Verbs == {"POST", "GET"}

\* ------------------------------------------------------ configuration
RouteMethods == {"m1", "m2"}
RouteURLs == {"u1", "ud"}
Route(m, u) == [Method |-> m, URL |-> u]
\* The routes of the model: each method routed to "u1", and "m1" also routed
\* to "ud", the URL that is the default URL as well.
Routes == {Route(m, u) : m \in RouteMethods, u \in RouteURLs} \ {Route("m2", "ud")}
Config(d, rs) == [DefaultURL |-> d, Routes |-> rs]
\* What the configuration file holds: a YAML document (its default_url, ""
\* when the key is missing or empty, and its routes), or nothing readable.
ConfigFile(st, d, rs) == [state |-> st, DefaultURL |-> d, Routes |-> rs]
ConfigFiles ==
    {ConfigFile("missing", "", <<>>), ConfigFile("malformed", "", <<>>)}
    \cup {ConfigFile("yaml", d, rs) : d \in {"", "ud"}, rs \in SeqsUpTo(Routes, MaxRoutes)}

ZeroConfig == Config("", <<>>)
NoMap == [m \in {} |-> ""]

VARIABLES
    configFile,     \* the file named by -config
    config,         \* var config Config
    methodToURL,    \* var methodToURL map[string]string
    mainpc,         \* where main() is: "start", "serving" or "fatal"
    pc,             \* per request: where its handler is
    request,        \* per request: the inbound HTTP request
    requestsByURL,  \* per request: handleBatchRequest's requestsByURL
    methodByID,     \* per request: handleBatchRequest's methodByID
    pending,        \* per request: keys of requestsByURL not yet ranged over
    allResponses,   \* per request: handleBatchRequest's allResponses
    inflight,       \* per request: the outbound forward awaiting its answer
    forwards,       \* per request: every outbound forward issued, in order
    replies,        \* per request: what came back for each forward, in order
    response        \* per request: what was written to the caller

vars == <<configFile, config, methodToURL, mainpc, pc, request, requestsByURL,
          methodByID, pending, allResponses, inflight, forwards, replies, response>>


\* The requests of the model; each is a slot that is reused once its
\* handler has returned.
Reqs == DOMAIN pc

\* ------------------------------------------------ HTTP messages
NoHeader == [k \in {} |-> <<>>]
\* http.Header.Add: append the value to the key's list of values.
HeaderAdd(h, k, v) ==
    [x \in DOMAIN h \cup {k} |->
        IF x = k THEN (IF k \in DOMAIN h THEN Append(h[k], v) ELSE <<v>>) ELSE h[x]]
\* http.Header.Set: replace the key's values by the one value.
HeaderSet(h, k, v) == [x \in DOMAIN h \cup {k} |-> IF x = k THEN <<v>> ELSE h[x]]

\* A message body: what kind of text it is and, for a JSON array of result
\* records, the records.
MkBody(k, t, rs) == [kind |-> k, text |-> t, recs |-> rs]
TextBody(t) == MkBody("text", t, <<>>)
ArrayBody(rs) == MkBody("array", "", rs)
ObjectBody == MkBody("object", "{\"error\":\"not found\"}", <<>>)
\* What has been written of a body when copying it stopped part-way.
Prefix(b) == MkBody("partial", b.text, <<>>)

Resp(st, h, b) == [status |-> st, header |-> h, body |-> b]

\* A result record as a backend writes it: the id it answers, the backend
\* that produced it, and whether it is written with insignificant whitespace.
Rec(i, u, sp) == [id |-> i, from |-> u, sp |-> sp]

RECURSIVE Reverse(_)
Reverse(s) == IF s = <<>> THEN <<>> ELSE Append(Reverse(Tail(s)), Head(s))

\* An outbound forward and the answers a backend can give to it.
Forward(u, v, h, p) == [url |-> u, verb |-> v, header |-> h, payload |-> p]
NoForward == [url |-> "", payload |-> NotJSON, fate |-> "none"]
RECURSIVE EchoRecs(_, _)
EchoRecs(elems, u) ==
    IF elems = <<>> THEN <<>>
    ELSE <<Rec(Head(elems).id, u, FALSE)>> \o EchoRecs(Tail(elems), u)
Echo(f) == EchoRecs(f.payload.elems, f.url)
RECURSIVE Spaced(_)
Spaced(rs) ==
    IF rs = <<>> THEN <<>> ELSE <<[Head(rs) EXCEPT !.sp = TRUE]>> \o Spaced(Tail(rs))
UpH1 == HeaderSet(NoHeader, "Content-Type", "application/json")
UpH2 == HeaderAdd(HeaderAdd(UpH1, "Set-Cookie", "a"), "Set-Cookie", "b")
Upstream(f) ==
    { Resp(200, UpH1, ArrayBody(Echo(f))),
      Resp(503, UpH2, ArrayBody(Spaced(Reverse(Echo(f))))),
      Resp(404, NoHeader, ObjectBody) }

\* ------------------------------------------------------------ main.go
\* A load that accepts a configuration without a default URL.
loadConfigNoValidation(file, cfg) ==
    IF file.state = "missing" THEN [err |-> "error reading config file", config |-> cfg]
    ELSE IF file.state = "malformed" THEN [err |-> "error unmarshaling YAML", config |-> cfg]
    ELSE [err |-> "", config |-> Config(file.DefaultURL, file.Routes)]

\* loadConfig: the error it returns ("" for nil) and the value of config.
loadConfig(file, cfg) ==
    IF file.state = "missing" THEN [err |-> "error reading config file", config |-> cfg]
    ELSE IF file.state = "malformed" THEN [err |-> "error unmarshaling YAML", config |-> cfg]
    ELSE LET c == Config(file.DefaultURL, file.Routes)
         IN  IF c.DefaultURL = ""
             THEN [err |-> "default_url is required in configuration", config |-> c]
             ELSE [err |-> "", config |-> c]

MapPut(f, k, v) == [x \in DOMAIN f \cup {k} |-> IF x = k THEN v ELSE f[x]]

\* A build that keeps the URL a method already has.
RECURSIVE buildMethodURLMapFirstWins(_)
buildMethodURLMapFirstWins(routes) ==
    IF routes = <<>> THEN NoMap
    ELSE MapPut(buildMethodURLMapFirstWins(Tail(routes)),
                Head(routes).Method, Head(routes).URL)

\* buildMethodURLMap: methodToURL[route.Method] = route.URL, route by route.
RECURSIVE buildMethodURLMap(_)
buildMethodURLMap(routes) ==
    IF routes = <<>> THEN NoMap
    ELSE LET n == Len(routes)
         IN  MapPut(buildMethodURLMap(SubSeq(routes, 1, n - 1)),
                    routes[n].Method, routes[n].URL)

\* A lookup that folds the case of the method name.
Lower(m) == IF m = "M1" THEN "m1" ELSE m
TargetURLFoldCase(m) ==
    IF Lower(m) \in DOMAIN methodToURL THEN methodToURL[Lower(m)] ELSE config.DefaultURL

\* targetURL, exists := methodToURL[m]; if !exists { targetURL = config.DefaultURL }
TargetURL(m) == IF m \in DOMAIN methodToURL THEN methodToURL[m] ELSE config.DefaultURL


\* ------------------------------------------------ encoding/json
\* json.Unmarshal into JSONRPCRequest fails on a value that is no object
\* (null is accepted and leaves the zero value) and on a jsonrpc or method
\* member that is not a string.
Decodable(e) ==
    \/ e.kind = "null"
    \/ /\ e.kind = "object"
       /\ e.jsonrpc.t \in {"absent", "null", "str"}
       /\ e.method.t \in {"absent", "null", "str"}
StringField(j) == IF j.t = "str" THEN j.v ELSE ""
\* A number decoded into interface{} is a float64; Float64 is the literal
\* json.Marshal writes for it.
Float64(lit) == IF lit = BigLit THEN BigLitRounded ELSE lit
\* A member decoded into interface{}: absent and null both leave nil.
Interface(j) ==
    IF j.t \in {"absent", "null"} THEN JNull
    ELSE IF j.t = "num" THEN JNum(Float64(j.v))
    ELSE j
Unmarshal(e) ==
    [JSONRPC |-> StringField(e.jsonrpc), Method |-> StringField(e.method),
     Params |-> Interface(e.params), ID |-> Interface(e.id)]
\* json.Marshal(req): the struct has no omitempty, all four members are written.
Marshal(req) == Call(JStr(req.JSONRPC), JStr(req.Method), req.Params, req.ID, FALSE)
\* A slice or a map cannot be the key of map[interface{}]string.
Hashable(id) == id.t \notin {"arr", "obj"}

RECURSIVE UnmarshalAll(_)
UnmarshalAll(elems) ==
    IF elems = <<>> THEN <<>> ELSE <<Unmarshal(Head(elems))>> \o UnmarshalAll(Tail(elems))

\* json.Marshal of a json.RawMessage compacts it.
RECURSIVE Compact(_)
Compact(rs) ==
    IF rs = <<>> THEN <<>> ELSE <<[Head(rs) EXCEPT !.sp = FALSE]>> \o Compact(Tail(rs))

\* ------------------------------------------------ handlers' helpers
\* http.Error(w, msg, code)
httpError(msg, code) ==
    Resp(code,
         HeaderSet(HeaderSet(NoHeader, "Content-Type", "text/plain; charset=utf-8"),
                   "X-Content-Type-Options", "nosniff"),
         TextBody(msg))

\* bytes.TrimSpace and the first byte of what is left.
TrimSpace(b) == [b EXCEPT !.pad = FALSE]
FirstByte(b) ==
    IF b.pad THEN " "
    ELSE IF b.arr THEN "["
    ELSE IF b.elems[1].kind = "object" THEN "{"
    ELSE IF b.elems[1].kind = "null" THEN "n"
    ELSE "5"
\* A detection that looks at the first byte of the body as it was received.
isBatchRequestUntrimmed(b) == FirstByte(b) = "["
isBatchRequest(b) == FirstByte(TrimSpace(b)) = "["

\* A forward that does not say what it accepts.
forwardRequestNoAccept(targetURL, body) ==
    Forward(targetURL, "POST", HeaderSet(NoHeader, "Content-Type", "application/json"),
            body)
\* The request forwardRequest builds for client.Do.
forwardRequest(targetURL, body) ==
    Forward(targetURL, "POST",
            HeaderSet(HeaderSet(NoHeader, "Content-Type", "application/json"),
                      "Accept", "application/json"),
            body)

\* The first pass of handleBatchRequest over batchRequests, from state st:
\* it stops where methodByID[req.ID] panics.
NoGroups == [u \in {} |-> <<>>]
NoIDs == [i \in {} |-> ""]
\* A first pass that takes a call whose id it has seen for a repetition and
\* leaves it out.
RECURSIVE firstPassSkipsSeenID(_, _)
firstPassSkipsSeenID(reqs, st) ==
    IF reqs = <<>> \/ st.panic THEN st
    ELSE LET req == Head(reqs)
             targetURL == TargetURL(req.Method)
             old == IF targetURL \in DOMAIN st.requestsByURL
                    THEN st.requestsByURL[targetURL] ELSE <<>>
             grouped == MapPut(st.requestsByURL, targetURL, Append(old, Marshal(req)))
         IN  IF ~Hashable(req.ID)
             THEN [st EXCEPT !.requestsByURL = grouped, !.panic = TRUE]
             ELSE IF req.ID \in DOMAIN st.methodByID
             THEN firstPassSkipsSeenID(Tail(reqs), st)
             ELSE firstPassSkipsSeenID(Tail(reqs),
                                       [requestsByURL |-> grouped,
                                        methodByID |-> MapPut(st.methodByID, req.ID,
                                                              req.Method),
                                        panic |-> FALSE])
RECURSIVE firstPass(_, _)
firstPass(reqs, st) ==
    IF reqs = <<>> \/ st.panic THEN st
    ELSE LET req == Head(reqs)
             targetURL == TargetURL(req.Method)
             old == IF targetURL \in DOMAIN st.requestsByURL
                    THEN st.requestsByURL[targetURL] ELSE <<>>
             grouped == MapPut(st.requestsByURL, targetURL, Append(old, Marshal(req)))
         IN  IF Hashable(req.ID)
             THEN firstPass(Tail(reqs),
                            [requestsByURL |-> grouped,
                             methodByID |-> MapPut(st.methodByID, req.ID, req.Method),
                             panic |-> FALSE])
             ELSE [st EXCEPT !.requestsByURL = grouped, !.panic = TRUE]

\* A sub-batch that holds the group's requests last first.
batchBodyReversed(requests) == Body(TRUE, TRUE, FALSE, Reverse(requests))
\* batchBody: "[" + the group's raw requests joined by "," + "]"
batchBody(requests) == Body(TRUE, TRUE, FALSE, requests)

\* The headers of resp copied to w with w.Header().Add, key by key.
RECURSIVE CopyValues(_, _, _)
CopyValues(h, k, vals) ==
    IF vals = <<>> THEN h ELSE CopyValues(HeaderAdd(h, k, Head(vals)), k, Tail(vals))
RECURSIVE CopyHeader(_, _, _)
CopyHeader(h, from, keys) ==
    IF keys = {} THEN h
    ELSE LET k == CHOOSE x \in keys : TRUE
         IN  CopyHeader(CopyValues(h, k, from[k]), from, keys \ {k})


\* ------------------------------------------------ inbound requests
Request(v, p, b, e) ==
    [verb |-> v, path |-> p, body |-> b, readErr |-> e, header |-> NoHeader]
NoRequest == Request("", "", NotJSON, FALSE)
\* Headers a caller may send with its request.
InboundHeader ==
    HeaderSet(HeaderSet(HeaderSet(NoHeader, "Content-Type", "text/plain"),
                        "Accept", "text/html"),
              "Authorization", "Bearer t")
WithHeader(req, h) == [req EXCEPT !.header = h]
\* readErr: io.ReadAll(r.Body) fails, the handler gets no body.
Requests ==
    {Request("POST", "/", b, FALSE) : b \in Bodies}
    \cup {Request("POST", "/", NotJSON, TRUE)}
    \cup {Request("GET", "/", b, FALSE) : b \in SmallBodies}
    \cup {Request(v, "/health", b, FALSE) :
            v \in Verbs, b \in {NotJSON, Body(TRUE, FALSE, FALSE, <<E1>>)}}
    \cup {WithHeader(Request("POST", "/", b, FALSE), InboundHeader) :
            b \in {Body(TRUE, FALSE, FALSE, <<E1>>), Body(TRUE, TRUE, FALSE, <<E1, E4>>)}}

cfgVars == <<configFile, config, methodToURL, mainpc>>
batchVars == <<requestsByURL, methodByID, pending, allResponses>>

InitWith(ids) ==
    /\ configFile \in ConfigFiles
    /\ config = ZeroConfig
    /\ methodToURL = NoMap
    /\ mainpc = "start"
    /\ pc = [r \in ids |-> "idle"]
    /\ request = [r \in ids |-> NoRequest]
    /\ requestsByURL = [r \in ids |-> NoGroups]
    /\ methodByID = [r \in ids |-> NoIDs]
    /\ pending = [r \in ids |-> {}]
    /\ allResponses = [r \in ids |-> <<>>]
    /\ inflight = [r \in ids |-> NoForward]
    /\ forwards = [r \in ids |-> <<>>]
    /\ replies = [r \in ids |-> <<>>]
    /\ response = [r \in ids |-> <<>>]

Init == InitWith({1})

\* main(): loadConfig, log.Fatalf on its error, else buildMethodURLMap and
\* http.ListenAndServe.
main ==
    /\ mainpc = "start"
    /\ LET loaded == loadConfig(configFile, config)
       IN  /\ config' = loaded.config
           /\ IF loaded.err # ""
              THEN mainpc' = "fatal" /\ methodToURL' = methodToURL
              ELSE mainpc' = "serving"
                   /\ methodToURL' = buildMethodURLMap(loaded.config.Routes)
    /\ UNCHANGED <<configFile, pc, request, batchVars, inflight, forwards, replies,
                   response>>

\* The server accepts a request and starts its handler's goroutine.
Arrive(r) ==
    /\ mainpc = "serving"
    /\ pc[r] = "idle"
    /\ \E req \in Requests : request' = [request EXCEPT ![r] = req]
    /\ pc' = [pc EXCEPT ![r] = "accepted"]
    /\ UNCHANGED <<cfgVars, batchVars, inflight, forwards, replies, response>>

\* The handler writes resp to the caller and returns.
Respond(r, resp) ==
    /\ response' = [response EXCEPT ![r] = Append(@, resp)]
    /\ pc' = [pc EXCEPT ![r] = "done"]

\* client.Do(req): the request is on its way; the backend will answer it (or
\* the transport will report an error), or it never does.
Send(r, targetURL, body) ==
    /\ forwards' = [forwards EXCEPT ![r] = Append(@, forwardRequest(targetURL, body))]
    /\ \E fate \in {"answer", "hang"} :
          inflight' = [inflight EXCEPT ![r] =
                          [url |-> targetURL, payload |-> body, fate |-> fate]]

\* A health check that answers GET only.
handleHealthGetOnly(r) ==
    /\ pc[r] = "accepted"
    /\ request[r].path = "/health"
    /\ IF request[r].verb = "GET"
       THEN Respond(r, Resp(200, HeaderSet(NoHeader, "Content-Type", "application/json"),
                            TextBody("{\"status\":\"ok\"}")))
       ELSE Respond(r, httpError("Method not allowed", 405))
    /\ UNCHANGED <<cfgVars, request, batchVars, inflight, forwards, replies>>

handleHealth(r) ==
    /\ pc[r] = "accepted"
    /\ request[r].path = "/health"
    /\ Respond(r, Resp(200, HeaderSet(NoHeader, "Content-Type", "application/json"),
                       TextBody("{\"status\":\"ok\"}")))
    /\ UNCHANGED <<cfgVars, request, batchVars, inflight, forwards, replies>>

\* A single-call path that forwards the call as json.Marshal writes it.
handleSingleRequestReserialized(r, body) ==
    IF ~Decodable(body.elems[1])
    THEN /\ Respond(r, httpError("Invalid JSON-RPC request", 400))
         /\ UNCHANGED <<batchVars, inflight, forwards>>
    ELSE LET rpcRequest == Unmarshal(body.elems[1])
         IN  /\ Send(r, TargetURL(rpcRequest.Method),
                     Body(TRUE, FALSE, FALSE, <<Marshal(rpcRequest)>>))
             /\ pc' = [pc EXCEPT ![r] = "single_wait"]
             /\ UNCHANGED <<batchVars, response>>

\* A single-call path that answers a call it cannot decode with 500.
handleSingleRequestParse500(r, body) ==
    IF body.arr \/ ~Decodable(body.elems[1])
    THEN /\ Respond(r, httpError("Invalid JSON-RPC request", 500))
         /\ UNCHANGED <<batchVars, inflight, forwards>>
    ELSE LET rpcRequest == Unmarshal(body.elems[1])
         IN  /\ Send(r, TargetURL(rpcRequest.Method), body)
             /\ pc' = [pc EXCEPT ![r] = "single_wait"]
             /\ UNCHANGED <<batchVars, response>>

\* handleSingleRequest up to resp, err := forwardRequest(targetURL, body); a
\* JSON array does not decode into JSONRPCRequest.
handleSingleRequest(r, body) ==
    IF body.arr \/ ~Decodable(body.elems[1])
    THEN /\ Respond(r, httpError("Invalid JSON-RPC request", 400))
         /\ UNCHANGED <<batchVars, inflight, forwards>>
    ELSE LET rpcRequest == Unmarshal(body.elems[1])
         IN  /\ Send(r, TargetURL(rpcRequest.Method), body)
             /\ pc' = [pc EXCEPT ![r] = "single_wait"]
             /\ UNCHANGED <<batchVars, response>>

\* A batch path that drops the elements that do not decode and goes on with
\* the others.
RECURSIVE DecodableOnly(_)
DecodableOnly(elems) ==
    IF elems = <<>> THEN <<>>
    ELSE (IF Decodable(Head(elems)) THEN <<Head(elems)>> ELSE <<>>)
         \o DecodableOnly(Tail(elems))
handleBatchRequestSkipUndecodable(r, body) ==
    LET batchRequests == UnmarshalAll(DecodableOnly(body.elems))
        pass == firstPass(batchRequests,
                          [requestsByURL |-> NoGroups, methodByID |-> NoIDs,
                           panic |-> FALSE])
    IN  /\ requestsByURL' = [requestsByURL EXCEPT ![r] = pass.requestsByURL]
        /\ methodByID' = [methodByID EXCEPT ![r] = pass.methodByID]
        /\ allResponses' = [allResponses EXCEPT ![r] = <<>>]
        /\ IF pass.panic
           THEN /\ pc' = [pc EXCEPT ![r] = "panicked"]
                /\ pending' = pending
           ELSE /\ pc' = [pc EXCEPT ![r] = "batch_range"]
                /\ pending' = [pending EXCEPT ![r] = DOMAIN pass.requestsByURL]
        /\ UNCHANGED <<inflight, forwards, response>>

\* A batch handler that rejects the empty array.
handleBatchRequestRejectsEmpty(r, body) ==
    IF body.elems = <<>> \/ \E i \in 1..Len(body.elems) : ~Decodable(body.elems[i])
    THEN /\ Respond(r, httpError("Invalid JSON-RPC batch request", 400))
         /\ UNCHANGED <<batchVars, inflight, forwards>>
    ELSE LET batchRequests == UnmarshalAll(body.elems)
             pass == firstPass(batchRequests,
                               [requestsByURL |-> NoGroups, methodByID |-> NoIDs,
                                panic |-> FALSE])
         IN  /\ requestsByURL' = [requestsByURL EXCEPT ![r] = pass.requestsByURL]
             /\ methodByID' = [methodByID EXCEPT ![r] = pass.methodByID]
             /\ allResponses' = [allResponses EXCEPT ![r] = <<>>]
             /\ IF pass.panic
                THEN /\ pc' = [pc EXCEPT ![r] = "panicked"]
                     /\ pending' = pending
                ELSE /\ pc' = [pc EXCEPT ![r] = "batch_range"]
                     /\ pending' = [pending EXCEPT ![r] = DOMAIN pass.requestsByURL]
             /\ UNCHANGED <<inflight, forwards, response>>

\* handleBatchRequest up to the end of its first pass
handleBatchRequest(r, body) ==
    IF \E i \in 1..Len(body.elems) : ~Decodable(body.elems[i])
    THEN /\ Respond(r, httpError("Invalid JSON-RPC batch request", 400))
         /\ UNCHANGED <<batchVars, inflight, forwards>>
    ELSE LET batchRequests == UnmarshalAll(body.elems)
             pass == firstPass(batchRequests,
                               [requestsByURL |-> NoGroups, methodByID |-> NoIDs,
                                panic |-> FALSE])
         IN  /\ requestsByURL' = [requestsByURL EXCEPT ![r] = pass.requestsByURL]
             /\ methodByID' = [methodByID EXCEPT ![r] = pass.methodByID]
             /\ allResponses' = [allResponses EXCEPT ![r] = <<>>]
             /\ IF pass.panic
                THEN /\ pc' = [pc EXCEPT ![r] = "panicked"]
                     /\ pending' = pending
                ELSE /\ pc' = [pc EXCEPT ![r] = "batch_range"]
                     /\ pending' = [pending EXCEPT ![r] = DOMAIN pass.requestsByURL]
             /\ UNCHANGED <<inflight, forwards, response>>

\* A handler that does not look at the verb of the request.
handleProxyAnyVerb(r) ==
    /\ pc[r] = "accepted"
    /\ request[r].path = "/"
    /\ LET body == request[r].body
       IN  IF request[r].readErr
           THEN /\ Respond(r, httpError("Error reading request body", 400))
                /\ UNCHANGED <<batchVars, inflight, forwards>>
           ELSE IF ~body.valid
           THEN /\ Respond(r, httpError("Invalid JSON", 400))
                /\ UNCHANGED <<batchVars, inflight, forwards>>
           ELSE IF isBatchRequest(body)
           THEN handleBatchRequest(r, body)
           ELSE handleSingleRequest(r, body)
    /\ UNCHANGED <<cfgVars, request, replies>>

\* handleProxy up to the return of handleSingleRequest or handleBatchRequest,
\* or to their first outbound forward.
handleProxy(r) ==
    /\ pc[r] = "accepted"
    /\ request[r].path = "/"
    /\ LET body == request[r].body
       IN  IF request[r].verb # "POST"
           THEN /\ Respond(r, httpError("Method not allowed", 405))
                /\ UNCHANGED <<batchVars, inflight, forwards>>
           ELSE IF request[r].readErr
           THEN /\ Respond(r, httpError("Error reading request body", 400))
                /\ UNCHANGED <<batchVars, inflight, forwards>>
           ELSE IF ~body.valid
           THEN /\ Respond(r, httpError("Invalid JSON", 400))
                /\ UNCHANGED <<batchVars, inflight, forwards>>
           ELSE IF isBatchRequest(body)
           THEN handleBatchRequest(r, body)
           ELSE handleSingleRequest(r, body)
    /\ UNCHANGED <<cfgVars, request, replies>>


\* What came back for a forward: the transport's error, the backend's
\* response, or its response with a body that could not be read to the end.
Reply(u, outcome, up) == [url |-> u, outcome |-> outcome, up |-> up]
NoUp == Resp(0, NoHeader, TextBody(""))
Logged(r, outcome, up) ==
    /\ replies' = [replies EXCEPT ![r] = Append(@, Reply(inflight[r].url, outcome, up))]
    /\ inflight' = [inflight EXCEPT ![r] = NoForward]

\* A failed forward that is tried once more, at the default URL.
SingleForwardErrorRetry(r) ==
    /\ pc[r] = "single_wait"
    /\ inflight[r].fate = "answer"
    /\ replies' = [replies EXCEPT ![r] = Append(@, Reply(inflight[r].url, "error", NoUp))]
    /\ IF Len(forwards[r]) < 2
       THEN /\ Send(r, config.DefaultURL, inflight[r].payload)
            /\ UNCHANGED <<pc, response>>
       ELSE /\ inflight' = [inflight EXCEPT ![r] = NoForward]
            /\ UNCHANGED forwards
            /\ Respond(r, httpError("Proxy error", 500))
    /\ UNCHANGED <<cfgVars, request, batchVars>>

\* handleSingleRequest, err != nil: http.Error(w, "Proxy error: ...", 500)
SingleForwardError(r) ==
    /\ pc[r] = "single_wait"
    /\ inflight[r].fate = "answer"
    /\ Logged(r, "error", NoUp)
    /\ Respond(r, httpError("Proxy error", 500))
    /\ UNCHANGED <<cfgVars, request, batchVars, forwards>>

\* handleSingleRequest, err == nil: copy the headers, the status code and
\* the body (io.Copy, whose error is only logged).
\* A relay that never calls w.WriteHeader(resp.StatusCode).
RelayedNoStatus(up, copied) ==
    Resp(200, CopyHeader(NoHeader, up.header, DOMAIN up.header),
         IF copied THEN up.body ELSE Prefix(up.body))
\* A relay that remembers in the route table where the method was sent.
SingleRelayLearnsRoute(r) ==
    /\ pc[r] = "single_wait"
    /\ inflight[r].fate = "answer"
    /\ \E up \in Upstream(inflight[r]) :
          /\ Logged(r, "response", up)
          /\ Respond(r, Resp(up.status, CopyHeader(NoHeader, up.header, DOMAIN up.header),
                             up.body))
    /\ methodToURL' = MapPut(methodToURL,
                             Unmarshal(request[r].body.elems[1]).Method, inflight[r].url)
    /\ UNCHANGED <<configFile, config, mainpc, request, batchVars, forwards>>
Relayed(up, copied) ==
    Resp(up.status, CopyHeader(NoHeader, up.header, DOMAIN up.header),
         IF copied THEN up.body ELSE Prefix(up.body))
SingleRelay(r) ==
    /\ pc[r] = "single_wait"
    /\ inflight[r].fate = "answer"
    /\ \E up \in Upstream(inflight[r]), copied \in BOOLEAN :
          /\ Logged(r, IF copied THEN "response" ELSE "readerror", up)
          /\ Respond(r, Relayed(up, copied))
    /\ UNCHANGED <<cfgVars, request, batchVars, forwards>>

\* An iteration that leaves its key to be ranged over again.
BatchForwardAgain(r) ==
    /\ pc[r] = "batch_range"
    /\ Len(forwards[r]) < 4
    /\ \E targetURL \in pending[r] :
          Send(r, targetURL, batchBody(requestsByURL[r][targetURL]))
    /\ pc' = [pc EXCEPT ![r] = "batch_wait"]
    /\ UNCHANGED <<cfgVars, request, batchVars, replies, response>>

\* handleBatchRequest, one iteration of "for targetURL, requests := range
\* requestsByURL" up to forwardRequest(targetURL, batchBody); a map is ranged
\* over in no particular order.
BatchForward(r) ==
    /\ pc[r] = "batch_range"
    /\ \E targetURL \in pending[r] :
          /\ Send(r, targetURL, batchBody(requestsByURL[r][targetURL]))
          /\ pending' = [pending EXCEPT ![r] = @ \ {targetURL}]
    /\ pc' = [pc EXCEPT ![r] = "batch_wait"]
    /\ UNCHANGED <<cfgVars, request, requestsByURL, methodByID, allResponses, replies,
                   response>>

\* A failed forward that ends the batch with an error response.
BatchForwardErrorAbort(r) ==
    /\ pc[r] = "batch_wait"
    /\ inflight[r].fate = "answer"
    /\ Logged(r, "error", NoUp)
    /\ Respond(r, httpError("Proxy error", 500))
    /\ UNCHANGED <<cfgVars, request, batchVars, forwards>>

\* err != nil from forwardRequest: log and continue
BatchForwardError(r) ==
    /\ pc[r] = "batch_wait"
    /\ inflight[r].fate = "answer"
    /\ Logged(r, "error", NoUp)
    /\ pc' = [pc EXCEPT ![r] = "batch_range"]
    /\ UNCHANGED <<cfgVars, request, batchVars, forwards, response>>

\* err != nil from io.ReadAll(resp.Body): log and continue; nothing of the
\* response has been looked at.
BatchReadError(r) ==
    /\ pc[r] = "batch_wait"
    /\ inflight[r].fate = "answer"
    /\ Logged(r, "readerror", NoUp)
    /\ pc' = [pc EXCEPT ![r] = "batch_range"]
    /\ UNCHANGED <<cfgVars, request, batchVars, forwards, response>>

\* A merge into one allResponses that all the handlers share.
BatchResponseShared(r) ==
    /\ pc[r] = "batch_wait"
    /\ inflight[r].fate = "answer"
    /\ \E up \in Upstream(inflight[r]) :
          /\ Logged(r, "response", up)
          /\ allResponses' = [q \in Reqs |-> allResponses[q] \o
                                 (IF up.body.kind = "array" THEN up.body.recs ELSE <<>>)]
    /\ pc' = [pc EXCEPT ![r] = "batch_range"]
    /\ UNCHANGED <<cfgVars, request, requestsByURL, methodByID, pending, forwards,
                   response>>

\* A merge that keeps only the last group's responses.
BatchResponseOverwrite(r) ==
    /\ pc[r] = "batch_wait"
    /\ inflight[r].fate = "answer"
    /\ \E up \in Upstream(inflight[r]) :
          /\ Logged(r, "response", up)
          /\ allResponses' = [allResponses EXCEPT ![r] =
                                 IF up.body.kind = "array" THEN up.body.recs ELSE @]
    /\ pc' = [pc EXCEPT ![r] = "batch_range"]
    /\ UNCHANGED <<cfgVars, request, requestsByURL, methodByID, pending, forwards,
                   response>>

\* The responses a group adds to allResponses: those of a body that is a
\* JSON array, none when json.Unmarshal into []json.RawMessage fails.
\* A parse that takes a body that is no array as one result record.
ParsedLenient(up) ==
    IF up.body.kind = "array" THEN up.body.recs ELSE <<Rec(JNull, "", FALSE)>>
\* A parse that takes the responses of a body only when the status is 200.
ParsedOnlyOK(up) ==
    IF up.status = 200 /\ up.body.kind = "array" THEN up.body.recs ELSE <<>>
Parsed(up) == IF up.body.kind = "array" THEN up.body.recs ELSE <<>>
BatchResponse(r) ==
    /\ pc[r] = "batch_wait"
    /\ inflight[r].fate = "answer"
    /\ \E up \in Upstream(inflight[r]) :
          /\ Logged(r, "response", up)
          /\ allResponses' = [allResponses EXCEPT ![r] = @ \o Parsed(up)]
    /\ pc' = [pc EXCEPT ![r] = "batch_range"]
    /\ UNCHANGED <<cfgVars, request, requestsByURL, methodByID, pending, forwards,
                   response>>

\* After the loop: "[]" when allResponses is empty, else json.Marshal of it;
\* the status code is the implicit 200 of w.Write.
\* A merge that answers an empty result with an error.
MergedErrorOnEmpty(all) ==
    IF Len(all) = 0 THEN httpError("Error creating response", 500)
    ELSE Resp(200, HeaderSet(NoHeader, "Content-Type", "application/json"),
              ArrayBody(Compact(all)))
\* A merge that writes the responses last first.
MergedReversed(all) ==
    Resp(200, HeaderSet(NoHeader, "Content-Type", "application/json"),
         IF Len(all) = 0 THEN ArrayBody(<<>>) ELSE ArrayBody(Compact(Reverse(all))))
Merged(all) ==
    Resp(200, HeaderSet(NoHeader, "Content-Type", "application/json"),
         IF Len(all) = 0 THEN ArrayBody(<<>>) ELSE ArrayBody(Compact(all)))
BatchWrite(r) ==
    /\ pc[r] = "batch_range"
    /\ pending[r] = {}
    /\ Respond(r, Merged(allResponses[r]))
    /\ UNCHANGED <<cfgVars, request, batchVars, inflight, forwards, replies>>

\* The handler has returned (or net/http has recovered its panic): nothing
\* of the request is kept.
Return(r) ==
    /\ pc[r] \in {"done", "panicked"}
    /\ pc' = [pc EXCEPT ![r] = "idle"]
    /\ request' = [request EXCEPT ![r] = NoRequest]
    /\ requestsByURL' = [requestsByURL EXCEPT ![r] = NoGroups]
    /\ methodByID' = [methodByID EXCEPT ![r] = NoIDs]
    /\ pending' = [pending EXCEPT ![r] = {}]
    /\ allResponses' = [allResponses EXCEPT ![r] = <<>>]
    /\ forwards' = [forwards EXCEPT ![r] = <<>>]
    /\ replies' = [replies EXCEPT ![r] = <<>>]
    /\ response' = [response EXCEPT ![r] = <<>>]
    /\ UNCHANGED <<cfgVars, inflight>>

Step(r) ==
    \/ handleHealth(r)
    \/ handleProxy(r)
    \/ SingleForwardError(r)
    \/ SingleRelay(r)
    \/ BatchForward(r)
    \/ BatchForwardError(r)
    \/ BatchReadError(r)
    \/ BatchResponse(r)
    \/ BatchWrite(r)

Next ==
    \/ main
    \/ \E r \in Reqs : Arrive(r)
    \/ \E r \in Reqs : handleHealth(r)
    \/ \E r \in Reqs : handleProxy(r)
    \/ \E r \in Reqs : SingleForwardError(r)
    \/ \E r \in Reqs : SingleRelay(r)
    \/ \E r \in Reqs : BatchForward(r)
    \/ \E r \in Reqs : BatchForwardError(r)
    \/ \E r \in Reqs : BatchReadError(r)
    \/ \E r \in Reqs : BatchResponse(r)
    \/ \E r \in Reqs : BatchWrite(r)
    \/ \E r \in Reqs : Return(r)

Spec == Init /\ [][Next]_vars

\* The scheduler runs every goroutine that can run, and a backend that
\* answers does so eventually.
FairSpec == Spec /\ WF_vars(Step(1))

\* The proxy started with a configuration file that loads: the default URL
\* "ud" and no route or one route.  The requests and the handlers are those
\* of Spec.
LoadableConfigFiles == {ConfigFile("yaml", "ud", rs) : rs \in SeqsUpTo(Routes, 1)}
LoadableInit == InitWith({1}) /\ configFile \in LoadableConfigFiles
LoadableSpec == LoadableInit /\ [][Next]_vars

\* Several requests at a time: net/http runs the handler of each request in
\* a goroutine of its own.  One configuration, with a route and a default
\* URL, and requests of each kind: a single call, a batch of two calls for
\* the route's URL, a batch of two calls for the default URL, a health check.
ConcConfigFile == ConfigFile("yaml", "ud", <<Route("m1", "u1")>>)
ConcRequests ==
    { Request("POST", "/", Body(TRUE, FALSE, FALSE, <<E1>>), FALSE),
      Request("POST", "/", Body(TRUE, TRUE, FALSE, <<E1, E1>>), FALSE),
      Request("POST", "/", Body(TRUE, TRUE, FALSE, <<E3, E4>>), FALSE),
      Request("GET", "/health", NotJSON, FALSE) }
ConcInit == InitWith(1..MaxConcurrent) /\ configFile = ConcConfigFile
ArriveAmong(r, reqs) ==
    /\ mainpc = "serving"
    /\ pc[r] = "idle"
    /\ \E req \in reqs : request' = [request EXCEPT ![r] = req]
    /\ pc' = [pc EXCEPT ![r] = "accepted"]
    /\ UNCHANGED <<cfgVars, batchVars, inflight, forwards, replies, response>>
ConcNext ==
    \/ main
    \/ \E r \in Reqs : ArriveAmong(r, ConcRequests)
    \/ \E r \in Reqs : handleHealth(r)
    \/ \E r \in Reqs : handleProxy(r)
    \/ \E r \in Reqs : SingleForwardError(r)
    \/ \E r \in Reqs : SingleRelay(r)
    \/ \E r \in Reqs : BatchForward(r)
    \/ \E r \in Reqs : BatchForwardError(r)
    \/ \E r \in Reqs : BatchReadError(r)
    \/ \E r \in Reqs : BatchResponse(r)
    \/ \E r \in Reqs : BatchWrite(r)
    \/ \E r \in Reqs : Return(r)
ConcSpec == ConcInit /\ [][ConcNext]_vars


\* ----------------------------------------------------------- properties
\* The method name a caller wrote in a call ("" when it wrote none).
MethodName(e) == IF e.method.t = "str" THEN e.method.v ELSE ""
\* The destination the route table gives a method name.
Resolve(m) == IF m \in DOMAIN methodToURL THEN methodToURL[m] ELSE config.DefaultURL
\* The request is a POST to the routing path whose body is a JSON array /
\* is valid JSON but no array.
BatchPath(r) ==
    /\ request[r].verb = "POST" /\ request[r].path = "/"
    /\ request[r].body.valid /\ request[r].body.arr
SinglePath(r) ==
    /\ request[r].verb = "POST" /\ request[r].path = "/"
    /\ request[r].body.valid /\ ~request[r].body.arr
\* The batch has been answered with the merged array (not with 400).
MergedWritten(r) ==
    /\ BatchPath(r) /\ pc[r] = "done"
    /\ Len(response[r]) = 1 /\ response[r][1].status # 400
\* The destinations the calls of a batch resolve to.
Destinations(r) ==
    {Resolve(MethodName(request[r].body.elems[i])) : i \in 1..Len(request[r].body.elems)}
Range(s) == {s[i] : i \in 1..Len(s)}
CountIn(x, s) == Cardinality({i \in 1..Len(s) : s[i] = x})
SameBag(a, b) == \A x \in Range(a) \cup Range(b) : CountIn(x, a) = CountIn(x, b)
\* A result record without its insignificant whitespace.
Plain(rec) == [rec EXCEPT !.sp = FALSE]
PlainAll(rs) == [i \in 1..Len(rs) |-> Plain(rs[i])]
\* The reply is a response whose body is a JSON array.
GoodReply(rp) == rp.outcome = "response" /\ rp.up.body.kind = "array"
\* The records of the good replies among rps, in the order of rps.
RECURSIVE Returned(_)
Returned(rps) ==
    IF rps = <<>> THEN <<>>
    ELSE (IF GoodReply(Head(rps)) THEN PlainAll(Head(rps).up.body.recs) ELSE <<>>)
         \o Returned(Tail(rps))

\* C1: every outbound forward, on the single-call path and on the batch
\* path, goes to the URL the route table holds for the exact method name of
\* each call it carries, and to the default URL when the table holds none;
\* the groups of a batch are exactly the destinations its calls resolve to.
C1_ResolutionExact ==
    \A r \in Reqs :
        pc[r] # "idle" =>
        /\ \A i \in 1..Len(forwards[r]) :
              \A j \in 1..Len(forwards[r][i].payload.elems) :
                 forwards[r][i].url = Resolve(MethodName(forwards[r][i].payload.elems[j]))
        /\ pc[r] \in {"batch_range", "batch_wait"} \/ MergedWritten(r)
              => DOMAIN requestsByURL[r] = Destinations(r)
        /\ SinglePath(r) /\ Len(forwards[r]) > 0
              => forwards[r][1].url = Resolve(MethodName(request[r].body.elems[1]))
\* A batch whose call "m1" went to its route and whose call "M1" went to the
\* default URL, which is another one.
C1_Witness ==
    \E r \in Reqs :
        /\ MergedWritten(r)
        /\ \E i, k \in 1..Len(forwards[r]) :
              /\ forwards[r][i].url = "u1" /\ config.DefaultURL # "u1"
              /\ \E j \in 1..Len(forwards[r][i].payload.elems) :
                    forwards[r][i].payload.elems[j].method.v = "m1"
              /\ forwards[r][k].url = config.DefaultURL
              /\ \E j \in 1..Len(forwards[r][k].payload.elems) :
                    forwards[r][k].payload.elems[j].method.v = "M1"

\* C2: a batch causes one outbound forward per distinct destination of its
\* calls: no URL is forwarded to twice, no URL is forwarded to that no call
\* of the batch resolves to, and when the merged response is written the
\* number of forwards is the number of distinct destinations.
C2_OneForwardPerDestination ==
    \A r \in Reqs :
        BatchPath(r) =>
            LET dests == Destinations(r)
            IN  /\ \A i, k \in 1..Len(forwards[r]) :
                      i # k => forwards[r][i].url # forwards[r][k].url
                /\ \A i \in 1..Len(forwards[r]) : forwards[r][i].url \in dests
                /\ MergedWritten(r) => Len(forwards[r]) = Cardinality(dests)
\* A batch of three calls, routed to two destinations, answered after two
\* forwards; two of the calls have different methods.
C2_Witness ==
    \E r \in Reqs :
        /\ MergedWritten(r)
        /\ Len(request[r].body.elems) = 3
        /\ Len(forwards[r]) = 2
        /\ \E i \in 1..2 :
              /\ Len(forwards[r][i].payload.elems) = 2
              /\ forwards[r][i].payload.elems[1].method # forwards[r][i].payload.elems[2].method

\* C3: the merged response of a batch holds exactly the result records of
\* the backends that answered with a JSON array, each as often as it was
\* returned, and nothing else; its status is 200.
C3_MergedIsUnion ==
    \A r \in Reqs :
        MergedWritten(r) =>
            /\ response[r][1].status = 200
            /\ response[r][1].body.kind = "array"
            /\ SameBag(response[r][1].body.recs, Returned(replies[r]))
\* Two backends answered with arrays, one of them with the same record
\* twice; the merged response holds the three records.
C3_Witness ==
    \E r \in Reqs :
        /\ MergedWritten(r)
        /\ Len(replies[r]) = 2
        /\ GoodReply(replies[r][1]) /\ GoodReply(replies[r][2])
        /\ Len(replies[r][1].up.body.recs) = 2
        /\ replies[r][1].up.body.recs[1] = replies[r][1].up.body.recs[2]
        /\ Len(response[r][1].body.recs) = 3


\* The reply is the transport's error / a response whose body is no array.
FailedReply(rp) == rp.outcome = "error"
NonArrayReply(rp) == rp.outcome = "response" /\ rp.up.body.kind # "array"
Without(s, i) == SubSeq(s, 1, i - 1) \o SubSeq(s, i + 1, Len(s))
\* The merged response for the replies rps.
MergedOf(rps) ==
    Resp(200, HeaderSet(NoHeader, "Content-Type", "application/json"),
         ArrayBody(Returned(rps)))

\* C4: when the forward to a destination of a batch fails, the batch is
\* still answered with status 200, the merged response holds no record of a
\* destination whose forward failed and holds every record of the
\* destinations that answered with an array.
C4_ForwardFailureOmitted ==
    \A r \in Reqs :
        BatchPath(r) /\ pc[r] = "done" /\ (\E i \in 1..Len(replies[r]) : FailedReply(replies[r][i]))
        => /\ Len(response[r]) = 1
           /\ response[r][1].status = 200
           /\ \A k \in 1..Len(response[r][1].body.recs) :
                 \E i \in 1..Len(replies[r]) :
                    /\ GoodReply(replies[r][i])
                    /\ replies[r][i].url = response[r][1].body.recs[k].from
           /\ \A i \in 1..Len(replies[r]) :
                 GoodReply(replies[r][i]) =>
                    \A k \in 1..Len(replies[r][i].up.body.recs) :
                       Plain(replies[r][i].up.body.recs[k]) \in Range(response[r][1].body.recs)
\* The first forward of a batch failed, the second was answered with
\* records, and the merged response holds them.
C4_Witness ==
    \E r \in Reqs :
        /\ MergedWritten(r)
        /\ Len(replies[r]) = 2
        /\ FailedReply(replies[r][1])
        /\ GoodReply(replies[r][2])
        /\ Len(response[r][1].body.recs) = 2

\* C5: a backend that answers a sub-batch with a body that is no JSON array
\* contributes no record, and the response is the one the batch would get
\* from the other destinations' replies alone.
C5_NonArrayContributesNothing ==
    \A r \in Reqs :
        MergedWritten(r) =>
            \A i \in 1..Len(replies[r]) :
                NonArrayReply(replies[r][i]) =>
                    /\ \A k \in 1..Len(response[r][1].body.recs) :
                          response[r][1].body.recs[k].from # replies[r][i].url
                    /\ response[r][1] = MergedOf(Without(replies[r], i))
\* A batch whose first destination answered with an object and whose second
\* answered with two records.
C5_Witness ==
    \E r \in Reqs :
        /\ MergedWritten(r)
        /\ Len(replies[r]) = 2
        /\ NonArrayReply(replies[r][1])
        /\ GoodReply(replies[r][2])
        /\ Len(replies[r][2].up.body.recs) = 2

\* C6: when every destination group of a batch fails (forward error, body
\* that cannot be read, body that is no array) the caller gets status 200
\* and the empty array.
C6_AllFailedEmptyArray ==
    \A r \in Reqs :
        /\ BatchPath(r) /\ pc[r] = "done"
        /\ Len(replies[r]) > 0
        /\ \A i \in 1..Len(replies[r]) : ~GoodReply(replies[r][i])
        => /\ Len(response[r]) = 1
           /\ response[r][1].status = 200
           /\ response[r][1].body = ArrayBody(<<>>)
\* A batch with two groups: one forward failed, the other was answered with
\* an object.
C6_Witness ==
    \E r \in Reqs :
        /\ MergedWritten(r)
        /\ Len(replies[r]) = 2
        /\ FailedReply(replies[r][1])
        /\ NonArrayReply(replies[r][2])

\* C7: in a batch, a destination whose backend fails or never responds does
\* not keep the other destinations from being forwarded to: every
\* destination that is still to be ranged over is eventually forwarded to.
C7_NoDestinationBlocked == (pending[1] # {}) ~> (pending[1] = {})

\* C8 as stated: a single call whose forward succeeds is answered with the
\* backend's status code, headers and body, unchanged.
C8_VerbatimRelay ==
    \A r \in Reqs :
        /\ SinglePath(r) /\ pc[r] = "done"
        /\ Len(replies[r]) = 1 /\ ~FailedReply(replies[r][1])
        => response[r] = <<replies[r][1].up>>
\* C8: a single call whose forward succeeds is answered with the backend's
\* status code and headers, and with the backend's body unchanged when the
\* body is copied to its end; when copying fails the caller has got a part
\* of the body.
C8_RelayUpToCopyError ==
    \A r \in Reqs :
        /\ SinglePath(r) /\ pc[r] = "done"
        /\ Len(replies[r]) = 1 /\ ~FailedReply(replies[r][1])
        => /\ Len(response[r]) = 1
           /\ response[r][1].status = replies[r][1].up.status
           /\ response[r][1].header = replies[r][1].up.header
           /\ replies[r][1].outcome = "response"
                 => response[r][1].body = replies[r][1].up.body
           /\ replies[r][1].outcome = "readerror"
                 => response[r][1].body = Prefix(replies[r][1].up.body)
\* A single call answered by its backend with 503 and two Set-Cookie
\* values, relayed in full.
C8_Witness ==
    \E r \in Reqs :
        /\ SinglePath(r) /\ pc[r] = "done"
        /\ Len(replies[r]) = 1 /\ replies[r][1].outcome = "response"
        /\ replies[r][1].up.status = 503
        /\ response[r][1].header["Set-Cookie"] = <<"a", "b">>

\* A call as a caller writes one: an object with a method name.
WrittenCall(e) ==
    e.kind = "object" /\ e.method.t = "str" /\ e.jsonrpc.t \in {"str", "absent"}

\* C9: a well-formed single call causes exactly one outbound forward, a
\* POST to the destination of its method, whose payload is the inbound body
\* as it was received.
C9_SingleForwardVerbatim ==
    \A r \in Reqs :
        /\ SinglePath(r) /\ WrittenCall(request[r].body.elems[1])
        /\ pc[r] \notin {"idle", "accepted"}
        => /\ Len(forwards[r]) = 1
           /\ forwards[r][1].verb = "POST"
           /\ forwards[r][1].url = Resolve(MethodName(request[r].body.elems[1]))
           /\ forwards[r][1].payload = request[r].body
\* A padded single call with a member JSONRPCRequest does not know, forwarded.
C9_Witness ==
    \E r \in Reqs :
        /\ SinglePath(r) /\ pc[r] = "single_wait"
        /\ request[r].body.pad /\ request[r].body.elems[1].extra
        /\ Len(forwards[r]) = 1

\* C10: a single call whose forward fails is answered with 500, and no
\* other forward is made for it.
C10_SingleFailure500 ==
    \A r \in Reqs :
        /\ SinglePath(r)
        /\ Len(replies[r]) > 0 /\ FailedReply(replies[r][1])
        => /\ pc[r] = "done"
           /\ Len(response[r]) = 1
           /\ response[r][1].status = 500
           /\ Len(forwards[r]) = 1
           /\ inflight[r] = NoForward
\* A single call routed to "u1" whose forward failed.
C10_Witness ==
    \E r \in Reqs :
        /\ SinglePath(r) /\ pc[r] = "done"
        /\ Len(replies[r]) = 1 /\ FailedReply(replies[r][1])
        /\ forwards[r][1].url = "u1"
        /\ response[r][1].status = 500

\* The calls of the inbound batch that resolve to the destination u, in the
\* order the caller wrote them.
RECURSIVE CallsFor(_, _)
CallsFor(elems, u) ==
    IF elems = <<>> THEN <<>>
    ELSE (IF Resolve(MethodName(Head(elems))) = u THEN <<Head(elems)>> ELSE <<>>)
         \o CallsFor(Tail(elems), u)

\* C11: the id of a call is forwarded as the caller wrote it: the same
\* number, the same string, and no id when the call has none; on the
\* single-call path and in the sub-requests of a batch.
C11_IdRoundTrip ==
    \A r \in Reqs :
        \A i \in 1..Len(forwards[r]) :
            LET sent == forwards[r][i].payload.elems
                written == IF SinglePath(r) THEN request[r].body.elems
                           ELSE CallsFor(request[r].body.elems, forwards[r][i].url)
            IN  /\ Len(sent) = Len(written)
                /\ \A j \in 1..Len(sent) : sent[j].id = written[j].id

\* Every forward of the batch was answered with an array of result records
\* (the backends of the model echo the id of each call they were sent).
AllEchoed(r) ==
    /\ MergedWritten(r)
    /\ Len(replies[r]) = Len(forwards[r])
    /\ \A i \in 1..Len(replies[r]) : GoodReply(replies[r][i])

\* C12: when the backends echo the ids, an id that is a number in the inbound
\* batch is the same number in the merged response and an id that is a
\* string is the same string.
C12_IdTypePreserved ==
    \A r \in Reqs :
        AllEchoed(r) =>
            \A i \in 1..Len(request[r].body.elems) :
                request[r].body.elems[i].id.t \in {"num", "str"} =>
                    \E k \in 1..Len(response[r][1].body.recs) :
                        response[r][1].body.recs[k].id = request[r].body.elems[i].id

\* The request is a POST to the routing path whose body was read.
PostedBody(r) ==
    request[r].verb = "POST" /\ request[r].path = "/" /\ ~request[r].readErr
\* The handler of the request has run.
Handled(r) == pc[r] \notin {"idle", "accepted"}
\* An element that json.Unmarshal does not take as a call: a number, or an
\* object whose method or jsonrpc member is a number.
NoCall(e) ==
    \/ e.kind = "number"
    \/ e.kind = "object" /\ (e.method.t = "num" \/ e.jsonrpc.t = "num")

\* C13: a POST whose body is not valid JSON, or is an array with an element
\* that does not decode as a call, is answered with 400 and nothing is
\* forwarded, whatever well-formed calls the array holds besides.
C13_Malformed400 ==
    \A r \in Reqs :
        /\ PostedBody(r) /\ Handled(r)
        /\ \/ ~request[r].body.valid
           \/ /\ request[r].body.arr
              /\ \E i \in 1..Len(request[r].body.elems) : NoCall(request[r].body.elems[i])
        => /\ pc[r] = "done"
           /\ Len(response[r]) = 1 /\ response[r][1].status = 400
           /\ forwards[r] = <<>> /\ replies[r] = <<>> /\ inflight[r] = NoForward
\* A batch of a well-formed call and a call whose method is a number,
\* answered with 400.
C13_Witness ==
    \E r \in Reqs :
        /\ PostedBody(r) /\ pc[r] = "done"
        /\ request[r].body.arr /\ request[r].body.elems = <<E1, EBadMethod>>
        /\ response[r][1].status = 400
        /\ forwards[r] = <<>>

\* C14: a request to the routing path whose verb is not POST is answered
\* with 405 and nothing is forwarded for it, whatever its body.
C14_NonPost405 ==
    \A r \in Reqs :
        request[r].path = "/" /\ request[r].verb # "POST" /\ Handled(r)
        => /\ pc[r] = "done"
           /\ Len(response[r]) = 1 /\ response[r][1].status = 405
           /\ forwards[r] = <<>> /\ replies[r] = <<>> /\ inflight[r] = NoForward
\* A GET whose body is a well-formed single call, answered with 405.
C14_Witness ==
    \E r \in Reqs :
        /\ request[r].path = "/" /\ request[r].verb = "GET" /\ pc[r] = "done"
        /\ request[r].body.valid /\ ~request[r].body.arr
        /\ WrittenCall(request[r].body.elems[1])
        /\ response[r][1].status = 405

\* What shows that a request went through handleBatchRequest / through
\* handleSingleRequest.
OnBatchPath(r) ==
    /\ pc[r] # "single_wait"
    /\ \A i \in 1..Len(forwards[r]) : forwards[r][i].payload.arr
    /\ pc[r] = "done" =>
          /\ Len(response[r]) = 1
          /\ \/ response[r][1] = httpError("Invalid JSON-RPC batch request", 400)
             \/ response[r][1].status = 200 /\ response[r][1].body.kind = "array"
OnSinglePath(r) ==
    /\ pc[r] \in {"single_wait", "done"}
    /\ requestsByURL[r] = NoGroups /\ pending[r] = {}
    /\ Len(forwards[r]) <= 1
    /\ \A i \in 1..Len(forwards[r]) : forwards[r][i].payload = request[r].body
    /\ pc[r] = "done" /\ forwards[r] = <<>> =>
          response[r] = <<httpError("Invalid JSON-RPC request", 400)>>

\* C15: a valid payload is classified by its outermost shape: a JSON array,
\* padded with whitespace or not, of one call or of more, is handled on the
\* batch path and only there; any other payload, a single object among
\* them, is handled on the single-call path and only there.
C15_ClassifiedByShape ==
    \A r \in Reqs :
        PostedBody(r) /\ request[r].body.valid /\ Handled(r)
        => IF request[r].body.arr THEN OnBatchPath(r) ELSE OnSinglePath(r)
\* An array of one call, padded with whitespace, forwarded as a batch.
C15_Witness ==
    \E r \in Reqs :
        /\ PostedBody(r) /\ pc[r] = "batch_wait"
        /\ request[r].body.arr /\ request[r].body.pad
        /\ Len(request[r].body.elems) = 1
        /\ Len(forwards[r]) = 1 /\ forwards[r][1].payload.arr

\* The methods of a route list and, for a method, the place of its last route.
MethodsOf(routes) == {routes[i].Method : i \in 1..Len(routes)}
\* The route at place i is the last one of its method.
IsLastOf(routes, i) == \A k \in (i + 1)..Len(routes) : routes[k].Method # routes[i].Method

\* C16: the route table built from a route list has one entry for each
\* method of the list and no other, and the entry of a method is the URL of
\* the last route of the list with that method.
C16_LastOccurrenceWins ==
    mainpc = "serving" =>
        /\ DOMAIN methodToURL = MethodsOf(configFile.Routes)
        /\ \A i \in 1..Len(configFile.Routes) :
              IsLastOf(configFile.Routes, i) =>
                 methodToURL[configFile.Routes[i].Method] = configFile.Routes[i].URL
\* The table built from two routes of the method "m1", to "u1" and then to
\* "ud".
C16_Witness ==
    /\ mainpc = "serving"
    /\ configFile.Routes = <<Route("m1", "u1"), Route("m1", "ud")>>
    /\ DOMAIN methodToURL = {"m1"}
    /\ methodToURL["m1"] = "ud"

\* C17: once the server is serving, no step of a handler changes the route
\* table or the default URL.
C17_TableReadOnly ==
    [][mainpc = "serving" => methodToURL' = methodToURL /\ config' = config]_vars
\* A route table with a route, after a batch was forwarded to two
\* destinations and answered.
C17_Witness ==
    /\ mainpc = "serving"
    /\ methodToURL = buildMethodURLMap(configFile.Routes)
    /\ methodToURL # NoMap
    /\ config.DefaultURL = configFile.DefaultURL
    /\ \E r \in Reqs : MergedWritten(r) /\ Len(forwards[r]) = 2 /\ Len(replies[r]) = 2

\* The headers of every outbound request.
JSONHeaders ==
    [k \in {"Content-Type", "Accept"} |-> <<"application/json">>]

\* C19: every outbound request, of a single call or of a batch, is a POST
\* whose headers are Content-Type: application/json and Accept:
\* application/json and nothing else, whatever headers the inbound request
\* carried.
C19_ForwardIsJSONPost ==
    \A r \in Reqs :
        \A i \in 1..Len(forwards[r]) :
            /\ forwards[r][i].verb = "POST"
            /\ forwards[r][i].header = JSONHeaders
\* A batch that came with Content-Type: text/plain, Accept: text/html and an
\* Authorization header, forwarded to two destinations.
C19_Witness ==
    \E r \in Reqs :
        /\ request[r].header = InboundHeader
        /\ BatchPath(r)
        /\ Len(forwards[r]) = 2
        /\ "Authorization" \notin DOMAIN forwards[r][2].header

\* C20: the health endpoint answers every request with status 200 and the
\* body {"status":"ok"}, whatever the verb, the route table and the requests
\* handled before, and nothing is forwarded for it.
C20_HealthFixed ==
    \A r \in Reqs :
        request[r].path = "/health" /\ Handled(r)
        => /\ pc[r] = "done"
           /\ Len(response[r]) = 1
           /\ response[r][1].status = 200
           /\ response[r][1].body = TextBody("{\"status\":\"ok\"}")
           /\ forwards[r] = <<>> /\ replies[r] = <<>> /\ inflight[r] = NoForward
\* A POST to the health endpoint with a call as its body, answered while the
\* route table holds a route.
C20_Witness ==
    \E r \in Reqs :
        /\ request[r].path = "/health" /\ request[r].verb = "POST"
        /\ request[r].body.valid
        /\ pc[r] = "done"
        /\ methodToURL # NoMap
        /\ response[r][1].status = 200

\* All that the handler of a request holds and has done.
Slot(r) ==
    <<pc[r], request[r], requestsByURL[r], methodByID[r], pending[r], allResponses[r],
      inflight[r], forwards[r], replies[r], response[r]>>
\* The calls of a batch as its sub-requests carry them.
RECURSIVE Reserialized(_)
Reserialized(elems) ==
    IF elems = <<>> THEN <<>>
    ELSE <<Marshal(Unmarshal(Head(elems)))>> \o Reserialized(Tail(elems))
\* The forward the request makes for the destination u when it is handled
\* alone.
OwnForward(r, u) ==
    forwardRequest(u, IF SinglePath(r) THEN request[r].body
                      ELSE batchBody(Reserialized(CallsFor(request[r].body.elems, u))))
\* What the request does is what it does when it is handled alone: its
\* forwards are those of its own calls, each reply answers its own forward,
\* and its response is made of its own replies.
AsAlone(r) ==
    /\ \A i \in 1..Len(forwards[r]) :
          /\ forwards[r][i].url \in Destinations(r)
          /\ forwards[r][i] = OwnForward(r, forwards[r][i].url)
    /\ Len(replies[r]) <= Len(forwards[r])
    /\ \A i \in 1..Len(replies[r]) :
          /\ replies[r][i].url = forwards[r][i].url
          /\ replies[r][i].outcome = "response" =>
                replies[r][i].up \in Upstream(forwards[r][i])
    /\ BatchPath(r) /\ Handled(r) =>
          /\ PlainAll(allResponses[r]) = Returned(replies[r])
          /\ pc[r] = "done" => response[r] = <<MergedOf(replies[r])>>
    /\ SinglePath(r) /\ pc[r] = "done" =>
          /\ Len(replies[r]) = 1
          /\ response[r] =
                <<IF replies[r][1].outcome = "error" THEN httpError("Proxy error", 500)
                  ELSE Relayed(replies[r][1].up, replies[r][1].outcome = "response")>>

\* C18: requests handled at the same time do not influence one another:
\* under every interleaving, a step of one handler changes nothing of another
\* request, and the forwards and the response of each request are those it
\* gets when it is handled alone.
C18_Independent ==
    /\ [](\A r \in Reqs : AsAlone(r))
    /\ [][\A r \in Reqs :
             Slot(r)' # Slot(r) => \A q \in Reqs \ {r} : Slot(q)' = Slot(q)]_vars
\* Two batches in flight at the same time, one for "u1" and one for "ud",
\* that got different answers; and both answered.
C18_Witness ==
    \E r, q \in Reqs :
        /\ r # q
        /\ MergedWritten(r) /\ MergedWritten(q)
        /\ forwards[r][1].url = "u1" /\ forwards[q][1].url = "ud"
        /\ GoodReply(replies[r][1]) /\ FailedReply(replies[q][1])
        /\ Len(response[r][1].body.recs) = 2
        /\ response[q][1].body.recs = <<>>

\* C21: the handler of every request ends with exactly one response written
\* to the caller; no payload makes it end without one.
C21_AlwaysAnswered ==
    \A r \in Reqs : pc[r] \in {"done", "panicked"} => Len(response[r]) = 1

\* The grouping pass of a batch has run to its end.
Grouped(r) ==
    BatchPath(r) /\ (pc[r] \in {"batch_range", "batch_wait"} \/ MergedWritten(r))
RECURSIVE SumOfLens(_, _)
SumOfLens(f, keys) ==
    IF keys = {} THEN 0
    ELSE LET k == CHOOSE x \in keys : TRUE
         IN  Len(f[k]) + SumOfLens(f, keys \ {k})

\* C22: the grouping pass partitions the batch: the group of a destination
\* holds one entry for each call of the batch that resolves to it, and
\* nothing else, so that no group is empty and the sizes of the groups add
\* up to the length of the batch; also when calls carry the same id or are
\* the same call.
C22_GroupingPartitions ==
    \A r \in Reqs :
        Grouped(r) =>
            LET elems == request[r].body.elems
                groups == requestsByURL[r]
            IN  /\ \A u \in DOMAIN groups :
                      /\ Len(groups[u]) > 0
                      /\ Len(groups[u]) = Len(CallsFor(elems, u))
                      /\ \A j \in 1..Len(groups[u]) :
                            Resolve(MethodName(groups[u][j])) = u
                /\ \A i \in 1..Len(elems) :
                      Resolve(MethodName(elems[i])) \in DOMAIN groups
                /\ SumOfLens(groups, DOMAIN groups) = Len(elems)
\* A batch of the same call twice and a call for another destination,
\* grouped into a group of two and a group of one.
C22_Witness ==
    \E r \in Reqs :
        /\ Grouped(r)
        /\ request[r].body.elems = <<E1, E4, E1>>
        /\ DOMAIN requestsByURL[r] = {"u1", "ud"}
        /\ Len(requestsByURL[r]["u1"]) = 2
        /\ Len(requestsByURL[r]["ud"]) = 1

\* A single-call request whose body is valid JSON that does not decode as a
\* call, and that has been answered.
SingleParseFailure(r) ==
    /\ SinglePath(r) /\ ~request[r].readErr /\ pc[r] = "done"
    /\ NoCall(request[r].body.elems[1])

\* C23 as stated: on the single-call path a parsing failure is answered with
\* a server error (5xx).
C23_ParseFailure5xx ==
    \A r \in Reqs :
        SingleParseFailure(r) =>
            Len(response[r]) = 1 /\ response[r][1].status >= 500
\* C23: on the single-call path a parsing failure is answered with 400 Bad
\* Request and nothing is forwarded; a forwarding failure is answered with
\* 500.
C23_ParseFailure400 ==
    \A r \in Reqs :
        /\ SingleParseFailure(r) =>
              /\ response[r] = <<httpError("Invalid JSON-RPC request", 400)>>
              /\ forwards[r] = <<>>
        /\ SinglePath(r) /\ pc[r] = "done" /\ forwards[r] # <<>>
           /\ replies[r][1].outcome = "error"
              => Len(response[r]) = 1 /\ response[r][1].status = 500
\* A single call whose method is a number, answered with 400.
C23_Witness ==
    \E r \in Reqs :
        /\ SingleParseFailure(r)
        /\ request[r].body.elems[1] = EBadMethod
        /\ response[r][1].status = 400

\* The method names of a sequence of calls, in their order.
RECURSIVE MethodsIn(_)
MethodsIn(elems) ==
    IF elems = <<>> THEN <<>> ELSE <<MethodName(Head(elems))>> \o MethodsIn(Tail(elems))

\* C24: the calls of the sub-batch forwarded to a destination are in the
\* order in which the inbound batch holds the calls of that destination.
C24_OrderInSubBatch ==
    \A r \in Reqs :
        BatchPath(r) =>
            \A i \in 1..Len(forwards[r]) :
                MethodsIn(forwards[r][i].payload.elems)
                    = MethodsIn(CallsFor(request[r].body.elems, forwards[r][i].url))
\* The batch "zz", "m1", "M1" with "m1" routed elsewhere: the sub-batch for
\* the default URL holds "zz" and then "M1".
C24_Witness ==
    \E r \in Reqs :
        /\ BatchPath(r)
        /\ request[r].body.elems = <<E4, E1, E3>>
        /\ \E i \in 1..Len(forwards[r]) :
              /\ forwards[r][i].url = "ud"
              /\ MethodsIn(forwards[r][i].payload.elems) = <<"zz", "M1">>


\* C25: the merged response is the runs of records of the destinations that
\* answered with an array, one run after the other: each run is a
\* destination's records in the order its backend returned them, and no
\* record of another destination stands between two records of one
\* destination. The order of the runs is the order in which the groups were
\* visited, which the claim leaves open.
C25_RunsPerDestination ==
    \A r \in Reqs :
        MergedWritten(r) =>
            LET recs == response[r][1].body.recs
            IN  /\ recs = Returned(replies[r])
                /\ \A a, c \in 1..Len(recs) :
                      a < c /\ recs[a].from = recs[c].from =>
                          \A b \in a..c : recs[b].from = recs[a].from
\* The default URL's backend returned its two records in the reverse of the
\* forwarded order and "u1" returned one; the merged response holds the
\* default URL's run first, in the returned order, and then the record of
\* "u1".
C25_Witness ==
    \E r \in Reqs :
        /\ MergedWritten(r)
        /\ request[r].body.elems = <<E4, E1, E3>>
        /\ Len(replies[r]) = 2
        /\ replies[r][1].url = "ud" /\ replies[r][2].url = "u1"
        /\ GoodReply(replies[r][1]) /\ GoodReply(replies[r][2])
        /\ replies[r][1].up.status = 503
        /\ PlainAll(replies[r][1].up.body.recs) # Echo(forwards[r][1])
        /\ Len(response[r][1].body.recs) = 3
        /\ response[r][1].body.recs[3].from = "u1"

\* C28: on the batch path the status of a backend's answer is not looked
\* at: every record of an answer whose body is a JSON array is in the merged
\* response, whatever the answer's status, and a batch that is answered with
\* the merged response is answered with status 200.
C28_BackendStatusIgnored ==
    \A r \in Reqs :
        MergedWritten(r) =>
            /\ response[r][1].status = 200
            /\ \A i \in 1..Len(replies[r]) :
                  replies[r][i].outcome = "response"
                  /\ replies[r][i].up.body.kind = "array" =>
                      \A k \in 1..Len(replies[r][i].up.body.recs) :
                          CountIn(Plain(replies[r][i].up.body.recs[k]),
                                  response[r][1].body.recs) > 0
\* The only backend of a batch answered 503 with an array of two records;
\* the caller got 200 and the two records.
C28_Witness ==
    \E r \in Reqs :
        /\ MergedWritten(r)
        /\ Len(replies[r]) = 1
        /\ replies[r][1].outcome = "response"
        /\ replies[r][1].up.status = 503
        /\ Len(replies[r][1].up.body.recs) = 2
        /\ response[r][1].status = 200
        /\ Len(response[r][1].body.recs) = 2

\* The request is a POST of the empty batch, read without error.
EmptyBatch(r) == PostedBody(r) /\ BatchPath(r) /\ request[r].body.elems = <<>>

\* C29: the empty batch is handled on the batch path, nothing is forwarded
\* for it, and it is answered with status 200 and the body "[]".
C29_EmptyBatch ==
    \A r \in Reqs :
        EmptyBatch(r) /\ Handled(r) =>
            /\ pc[r] \in {"batch_range", "done"}
            /\ forwards[r] = <<>> /\ pending[r] = {}
            /\ requestsByURL[r] = NoGroups
            /\ pc[r] = "done" =>
                  /\ Len(response[r]) = 1
                  /\ response[r][1].status = 200
                  /\ response[r][1].body = ArrayBody(<<>>)
\* The empty batch, written with whitespace around it, has been answered
\* with "[]".
C29_Witness ==
    \E r \in Reqs :
        /\ EmptyBatch(r) /\ request[r].body.pad
        /\ pc[r] = "done"
        /\ forwards[r] = <<>>
        /\ response[r][1].status = 200
        /\ response[r][1].body = ArrayBody(<<>>)


\* C26: a payload is forwarded only if it is a JSON object or an array of
\* JSON objects: a payload that is, or holds, a null or a number is answered
\* with 400 and nothing is forwarded for it.
C26_OnlyObjectsForwarded ==
    \A r \in Reqs :
        /\ PostedBody(r) /\ request[r].body.valid /\ Handled(r)
        /\ \E i \in 1..Len(request[r].body.elems) :
              request[r].body.elems[i].kind # "object"
        => /\ forwards[r] = <<>>
           /\ pc[r] = "done" => Len(response[r]) = 1 /\ response[r][1].status = 400

\* C27: a call forwarded in a sub-batch has the jsonrpc, method and params
\* members of the inbound call it was made from, each written exactly when
\* the caller wrote it and with the caller's value, and it keeps the other
\* members of the inbound call.
C27_MembersPreserved ==
    \A r \in Reqs :
        BatchPath(r) =>
            \A i \in 1..Len(forwards[r]) :
                LET sent == forwards[r][i].payload.elems
                    written == CallsFor(request[r].body.elems, forwards[r][i].url)
                IN  /\ Len(sent) = Len(written)
                    /\ \A j \in 1..Len(sent) :
                          written[j].kind = "object" =>
                              /\ sent[j].jsonrpc = written[j].jsonrpc
                              /\ sent[j].method = written[j].method
                              /\ sent[j].params = written[j].params
                              /\ sent[j].extra = written[j].extra

\* C30: loading fails exactly when the file cannot be read or parsed or has
\* no default URL, whatever its route list; main then stops, and it serves
\* only with the non-empty default URL and the routes of the file.
C30_DefaultRequired ==
    mainpc # "start" =>
        /\ mainpc = "fatal" <=>
              (configFile.state # "yaml" \/ configFile.DefaultURL = "")
        /\ loadConfig(configFile, ZeroConfig).err # "" <=> mainpc = "fatal"
        /\ mainpc = "serving" =>
              /\ config.DefaultURL # ""
              /\ config = Config(configFile.DefaultURL, configFile.Routes)
\* A readable file with a route and no default URL: main has stopped.
C30_Witness ==
    /\ mainpc = "fatal"
    /\ configFile.state = "yaml"
    /\ configFile.DefaultURL = ""
    /\ configFile.Routes # <<>>
    /\ loadConfig(configFile, ZeroConfig).err = "default_url is required in configuration"

=============================================================================
